---- MODULE Spec2Model ----
(***************************************************************************)
(* Model of app.py: the "Generate Travel Plan" render of the travel        *)
(* planner (flight search, selection of the three cheapest offers, the     *)
(* three agent calls, the display loop with its per-offer booking lookup,  *)
(* the hotels / itinerary sections and the completion message).            *)
(*                                                                         *)
(* JSON values are tagged records [t, n, s]: t is "missing" (key absent),  *)
(* "null" (None), "num" (value n), "str" (value s) or "inf" (the float     *)
(* infinity the sort key substitutes for an absent price).                 *)
(***************************************************************************)
EXTENDS Integers, Sequences, FiniteSets, TLC

VARIABLES pc, flight_data, cheapest_flights, research_results,
          hotel_restaurant_results, itinerary, idx, results_with_booking,
          booking_options, calls, page

\* pc: the stage of the render ("crashed": an exception reached the top
\*   level); idx: the number of offers the display loop has gone through
\*   (the 0-based position of the next one); results_with_booking and
\*   booking_options: as left by the last iteration that assigned them;
\* calls: the external calls made so far; page: what has been shown so far.
vars == <<pc, flight_data, cheapest_flights, research_results,
          hotel_restaurant_results, itinerary, idx, results_with_booking,
          booking_options, calls, page>>

\* ---------------------------------------------------------------- bounds
\* longest best_flights list of a flight search response
MaxOffers == 4
\* longest best_flights list of a secondary (booking) response
MaxSecondary == 2

\* the slice [:3] of extract_cheapest_flights
TopN == 3

\* ----------------------------------------------------------- JSON values
Missing == [t |-> "missing", n |-> 0, s |-> ""]
Null == [t |-> "null", n |-> 0, s |-> ""]
Inf == [t |-> "inf", n |-> 0, s |-> ""]
Num(k) == [t |-> "num", n |-> k, s |-> ""]
Str(x) == [t |-> "str", n |-> 0, s |-> x]

\* Python truthiness of a value read with dict.get (a missing key reads as
\* the default, which every caller here makes falsy)
Truthy(v) == \/ v.t = "str" /\ v.s # ""
             \/ v.t = "num" /\ v.n # 0
             \/ v.t = "inf"

Min(a, b) == IF a < b THEN a ELSE b

Take(s, k) == SubSeq(s, 1, Min(k, Len(s)))

\* ----------------------------------------------------- flight responses
\* A response is [t, best]: t is "none" (get_dict gave None), "nondict" or
\* "dict"; best is the best_flights field, [t, l] with t "absent", "null",
\* "nonlist" (a non-empty value that is no list) or "list" (the list l).
NoBest == [t |-> "absent", l |-> <<>>]
EmptyDict == [t |-> "dict", best |-> NoBest]
NoneResult == [t |-> "none", best |-> NoBest]
NonDictResult == [t |-> "nondict", best |-> NoBest]
NullBestResult == [t |-> "dict", best |-> [t |-> "null", l |-> <<>>]]
NonListResult == [t |-> "dict", best |-> [t |-> "nonlist", l |-> <<>>]]
ListResult(l) == [t |-> "dict", best |-> [t |-> "list", l |-> l]]

\* `results or {}` (fetch_flights) and `get_dict() or {}` (display loop)
OrEmptyDict(r) == IF r.t = "none" THEN EmptyDict ELSE r

\* ------------------------------------------------------------ flight legs
\* A leg is [isdict, departure_airport, arrival_airport]; an airport field
\* is "missing", "dict" or "nondict".  The flights field of an offer is
\* [t, legs] with t "missing", "null", "nonlist" or "list".
Leg(d, a) == [isdict |-> TRUE, departure_airport |-> d, arrival_airport |-> a]
NonDictLeg == [isdict |-> FALSE, departure_airport |-> "missing",
               arrival_airport |-> "missing"]
NoFlights == [t |-> "missing", legs |-> <<>>]
Legs(l) == [t |-> "list", legs |-> l]

\* An offer of a best_flights list
Offer(i, p, tok, f) == [isdict |-> TRUE, id |-> i, price |-> p,
                        departure_token |-> tok, flights |-> f]
NonDictOffer(i) == [isdict |-> FALSE, id |-> i, price |-> Missing,
                    departure_token |-> Missing, flights |-> NoFlights]

\* ------------------------------------------- extract_cheapest_flights
\* the key with 0 as the default of an absent price
PriceKeyZero(x) == IF x.price.t = "missing" THEN Num(0) ELSE x.price

\* key=lambda x: x.get("price", float("inf"))
PriceKey(x) == IF x.price.t = "missing" THEN Inf ELSE x.price

\* Python's < is defined between numbers (float("inf") included) and
\* between strings; None compares with nothing, not even with None.
Comparable(a, b) == \/ a.t \in {"num", "inf"} /\ b.t \in {"num", "inf"}
                    \/ a.t = "str" /\ b.t = "str"

\* a < b for comparable keys (the model has one string price, so two
\* string keys are equal)
Less(a, b) == IF a.t = "str" \/ a.t = "inf" THEN FALSE
              ELSE IF b.t = "inf" THEN TRUE
              ELSE a.n < b.n

\* sorted() compares every element with at least one other as soon as the
\* list has two elements, and stops at the first comparison that raises:
\* it raises exactly when two keys of the list are not comparable.
SortRaises(l) == \E i, j \in 1..Len(l) :
                    i # j /\ ~Comparable(PriceKey(l[i]), PriceKey(l[j]))

\* x inserted into the sorted sequence s behind every element that is not
\* greater than it (sorted() is stable)
RECURSIVE InsertSorted(_, _)
InsertSorted(x, s) ==
    IF s = <<>> THEN <<x>>
    ELSE IF Less(PriceKey(x), PriceKey(s[1])) THEN <<x>> \o s
    ELSE <<s[1]>> \o InsertSorted(x, Tail(s))

RECURSIVE SortedByPrice(_)
SortedByPrice(l) ==
    IF l = <<>> THEN <<>>
    ELSE InsertSorted(l[Len(l)], SortedByPrice(SubSeq(l, 1, Len(l) - 1)))

Raised == [exc |-> TRUE, val |-> <<>>]
Returned(v) == [exc |-> FALSE, val |-> v]

\* the body of the try of extract_cheapest_flights
ExtractTryBody(fd) ==
    IF fd.t # "dict" THEN Raised
    ELSE LET best_flights == IF fd.best.t = "list" THEN fd.best.l ELSE <<>>
         IN  IF fd.best.t = "nonlist" THEN Raised
             ELSE IF \E i \in 1..Len(best_flights) : ~best_flights[i].isdict
                  THEN Raised
             ELSE IF SortRaises(best_flights) THEN Raised
             ELSE Returned(Take(SortedByPrice(best_flights), TopN))

\* the function without its except clause
ExtractNoExcept(fd) == ExtractTryBody(fd)

\* extract_cheapest_flights: [exc, val], exc when an exception reaches the
\* caller
extract_cheapest_flights(fd) ==
    LET r == ExtractTryBody(fd)
    IN  IF r.exc THEN Returned(<<>>) ELSE r

\* ------------------------------------------------------- the display loop
\* The line of the card's field reads (lines 268-278) that raises for this
\* offer, 0 when none does.  flight.get("flights", [{}]) defaults to one
\* empty leg; a falsy flights value (null, []) skips the leg reads.
CardFieldsRaiseAt(flight) ==
    LET f == flight.flights
        flights_info == IF f.t = "missing" THEN <<Leg("missing", "missing")>>
                        ELSE f.legs
        first == flights_info[1]
        last == flights_info[Len(flights_info)]
    IN  IF f.t = "nonlist" THEN 273
        ELSE IF f.t = "null" \/ flights_info = <<>> THEN 0
        ELSE IF ~first.isdict THEN 273
        ELSE IF ~last.isdict THEN 274
        ELSE IF first.departure_airport = "nondict" THEN 277
        ELSE IF last.arrival_airport = "nondict" THEN 278
        ELSE 0

\* departure_token = flight.get("departure_token", "") or None
DepartureToken(flight) ==
    IF Truthy(flight.departure_token) THEN flight.departure_token ELSE Null

\* a lookup for every offer, token or not
HasTokenAlways(flight) == TRUE

\* if departure_token:
HasToken(flight) == Truthy(DepartureToken(flight))

\* entry.get("booking_token") of a secondary best_flights entry
BookingToken(entry) ==
    IF entry.booking_token.t = "missing" THEN Null ELSE entry.booking_token

\* the index fallback dropped: only the entry at idx is read
BookingNoFallback(rwb, i) ==
    IF rwb.t # "dict" \/ rwb.best.t \in {"null", "nonlist"} THEN Raised
    ELSE LET l == IF rwb.best.t = "list" THEN rwb.best.l ELSE <<>>
         IN  IF Len(l) > i
             THEN IF l[i + 1].isdict THEN Returned(BookingToken(l[i + 1]))
                  ELSE Raised
             ELSE Returned(Null)

\* an empty or token-less answer raised as an error
BookingStrict(rwb, i) ==
    IF rwb.t # "dict" \/ rwb.best.t \in {"null", "nonlist"} THEN Raised
    ELSE LET l == IF rwb.best.t = "list" THEN rwb.best.l ELSE <<>>
             e == IF Len(l) > i THEN l[i + 1] ELSE l[1]
         IN  IF l = <<>> \/ ~e.isdict \/ ~Truthy(BookingToken(e)) THEN Raised
             ELSE Returned(BookingToken(e))

\* lines 291-297: the booking token read from the secondary response at the
\* 0-based position i of the offer, [exc, val]
BookingLookup(rwb, i) ==
    IF rwb.t # "dict" THEN Raised
    ELSE IF rwb.best.t \in {"null", "nonlist"} THEN Raised
    ELSE LET best_flights_list == IF rwb.best.t = "list" THEN rwb.best.l
                                  ELSE <<>>
         IN  IF Len(best_flights_list) > i
             THEN IF best_flights_list[i + 1].isdict
                  THEN Returned(BookingToken(best_flights_list[i + 1]))
                  ELSE Raised
             ELSE IF best_flights_list # <<>>
                  THEN IF best_flights_list[1].isdict
                       THEN Returned(BookingToken(best_flights_list[1]))
                       ELSE Raised
                  ELSE Returned(Null)

UrlPrefix == "https://www.google.com/travel/flights?tfs="

\* line 303
BookingLink(b) == IF Truthy(b) THEN UrlPrefix \o b.s ELSE "#"

\* line 332
BookingLabel(b) == IF Truthy(b) THEN "Book Now" ELSE "No booking link available"

\* ------------------------------------------------------------ the page
\* What the render has put on the page, in order: [kind, pos, text, label]
Shown(k, p, x, l) == [kind |-> k, pos |-> p, text |-> x, label |-> l]
Error(x) == Shown("error", 0, x, "")
Warning(p, x) == Shown("warning", p, x, "")
Subheader(x) == Shown("subheader", 0, x, "")
Text(x) == Shown("text", 0, x, "")
Card(p, b) == Shown("card", p, BookingLink(b), BookingLabel(b))

\* external calls made so far, in order: [op, arg, exc], arg the 0-based
\* position of the offer of a booking lookup, exc whether the call raised
Call(o, a, e) == [op |-> o, arg |-> a, exc |-> e]

\* the result object of an agent run
Content(x) == [content |-> x]
NotRun == Content("<not run>")

\* ----------------------------------------------------------- the inputs
\* prices a search response carries: numbers, none, null, a non-number
SelectPrices == {Num(300), Num(500), Num(900), Missing, Null, Str("N/A")}
NonDictMark == [t |-> "nondict", n |-> 0, s |-> ""]

\* every best_flights list of at most MaxOffers entries, an entry being an
\* offer with one of the prices (id: its position) or no dict at all
SelectLists ==
    UNION {{[i \in 1..k |-> IF f[i] = NonDictMark THEN NonDictOffer(i)
                            ELSE Offer(i, f[i], Missing, NoFlights)] :
            f \in [1..k -> SelectPrices \cup {NonDictMark}]} : k \in 0..MaxOffers}

SelectInputs == {NonDictResult, EmptyDict, NullBestResult, NonListResult}
                \cup {ListResult(l) : l \in SelectLists}

OneLeg == Legs(<<Leg("dict", "dict")>>)
TwoLegs == Legs(<<Leg("dict", "missing"), Leg("missing", "dict")>>)

\* the offers of the renders: three well-formed ones with a token; one
\* with no token and no price, one with an empty token, one with a null
\* token; one with a token whose leg is no dict, one with no token whose
\* departure airport is no dict
RenderOffers ==
    {Offer(1, Num(500), Str("abc"), OneLeg),
     Offer(2, Num(300), Str("def"), NoFlights),
     Offer(3, Num(900), Str("ghi"), TwoLegs),
     Offer(4, Missing, Missing, Legs(<<>>)),
     Offer(5, Num(300), Str(""), OneLeg),
     Offer(6, Num(500), Str("jkl"), Legs(<<NonDictLeg>>)),
     Offer(7, Num(900), Null, [t |-> "null", legs |-> <<>>]),
     Offer(8, Num(300), Missing, Legs(<<Leg("nondict", "dict")>>))}

\* the best_flights lists of the renders: at most MaxOffers of these
\* offers, listed by id
RenderLists ==
    UNION {{l \in [1..k -> RenderOffers] :
              \A i, j \in 1..k : i < j => l[i].id < l[j].id} : k \in 0..MaxOffers}

\* what get_dict() of the flight search can return
FetchResults == {NoneResult, NonDictResult, NullBestResult}
                \cup {ListResult(l) : l \in RenderLists}

\* an entry of a secondary best_flights list: at position k its booking
\* token is "T<k>", or it has none, or it is no dict; the first entry's
\* token can also be the empty string
Entry(tok) == [isdict |-> TRUE, booking_token |-> tok]
NonDictEntry == [isdict |-> FALSE, booking_token |-> Missing]
EntriesAt(k) == {Entry(Str("T" \o ToString(k))), Entry(Missing), NonDictEntry}
                \cup (IF k = 1 THEN {Entry(Str(""))} ELSE {})

SecondaryLists ==
    UNION {{l \in [1..k -> UNION {EntriesAt(i) : i \in 1..k}] :
              \A i \in 1..k : l[i] \in EntriesAt(i)} : k \in 0..MaxSecondary}

\* what get_dict() of a booking lookup can return
SecondaryResults ==
    {NoneResult, NonDictResult, EmptyDict, NullBestResult, NonListResult}
    \cup {ListResult(l) : l \in SecondaryLists}

\* ------------------------------------------------------------ the render
\* the display entered right after the selection, the agents left for later
AfterSelectDisplay == "flights_section"

\* the stage that follows the selection (line 219 to 222), the planner
\* (line 258 to 263) and the last card (line 336 to 343)
AfterSelect == "research"
AfterPlan == "flights_section"
AfterCards == "hotels_section"

InitRest ==
    /\ cheapest_flights = <<>>
    /\ research_results = NotRun
    /\ hotel_restaurant_results = NotRun
    /\ itinerary = NotRun
    /\ idx = 0
    /\ results_with_booking = EmptyDict
    /\ booking_options = Null
    /\ calls = <<>>
    /\ page = <<>>

\* the button has been pressed with both keys configured
Init == pc = "fetch" /\ flight_data = EmptyDict /\ InitRest

\* line 218: fetch_flights
FetchFlights ==
    /\ pc = "fetch"
    /\ \/ /\ flight_data' = EmptyDict
          /\ calls' = Append(calls, Call("flight_search", 0, TRUE))
          /\ page' = Append(page, Error("Error fetching flights"))
       \/ /\ \E results \in FetchResults : flight_data' = OrEmptyDict(results)
          /\ calls' = Append(calls, Call("flight_search", 0, FALSE))
          /\ page' = page
    /\ pc' = "select"
    /\ UNCHANGED <<cheapest_flights, research_results,
                   hotel_restaurant_results, itinerary, idx,
                   results_with_booking, booking_options>>

\* line 219: cheapest_flights = extract_cheapest_flights(flight_data)
SelectCheapest ==
    /\ pc = "select"
    /\ LET r == extract_cheapest_flights(flight_data)
       IN  IF r.exc
           THEN pc' = "crashed" /\ UNCHANGED cheapest_flights
           ELSE pc' = AfterSelect /\ cheapest_flights' = r.val
    /\ UNCHANGED <<flight_data, research_results, hotel_restaurant_results,
                   itinerary, idx, results_with_booking, booking_options,
                   calls, page>>

\* lines 222-232
Research ==
    /\ pc = "research"
    /\ \/ /\ research_results' = Content("research")
          /\ calls' = Append(calls, Call("researcher", 0, FALSE))
          /\ page' = page
       \/ /\ calls' = Append(calls, Call("researcher", 0, TRUE))
          /\ research_results' = Content("No research results due to error.")
          /\ page' = Append(page, Error("Research agent error"))
    /\ pc' = "hotels"
    /\ UNCHANGED <<flight_data, cheapest_flights, hotel_restaurant_results,
                   itinerary, idx, results_with_booking, booking_options>>

\* lines 235-244
HotelsRestaurants ==
    /\ pc = "hotels"
    /\ \/ /\ hotel_restaurant_results' = Content("hotels and restaurants")
          /\ calls' = Append(calls, Call("hotel_restaurant_finder", 0, FALSE))
          /\ page' = page
       \/ /\ calls' = Append(calls, Call("hotel_restaurant_finder", 0, TRUE))
          /\ hotel_restaurant_results' =
                Content("No hotels/restaurants found due to error.")
          /\ page' = Append(page, Error("Hotel & Restaurant agent error"))
    /\ pc' = "plan"
    /\ UNCHANGED <<flight_data, cheapest_flights, research_results,
                   itinerary, idx, results_with_booking, booking_options>>

\* lines 247-258
Plan ==
    /\ pc = "plan"
    /\ \/ /\ itinerary' = Content("itinerary")
          /\ calls' = Append(calls, Call("planner", 0, FALSE))
          /\ page' = page
       \/ /\ calls' = Append(calls, Call("planner", 0, TRUE))
          /\ itinerary' = Content("No itinerary generated due to error.")
          /\ page' = Append(page, Error("Planner agent error"))
    /\ pc' = AfterPlan
    /\ UNCHANGED <<flight_data, cheapest_flights, research_results,
                   hotel_restaurant_results, idx, results_with_booking,
                   booking_options>>

\* lines 263-265 and 337-338
FlightsSection ==
    /\ pc = "flights_section"
    /\ IF cheapest_flights # <<>>
       THEN /\ page' = Append(page, Subheader("Cheapest Flight Options"))
            /\ pc' = "card"
       ELSE /\ page' = page \o <<Subheader("Cheapest Flight Options"),
                                  Warning(0, "No flight data available.")>>
            /\ pc' = AfterCards
    /\ idx' = 0
    /\ UNCHANGED <<flight_data, cheapest_flights, research_results,
                   hotel_restaurant_results, itinerary,
                   results_with_booking, booking_options, calls>>

\* lines 266-336: one iteration of the loop, for the offer at the 0-based
\* position idx; an exception of the field reads leaves the render
FlightCard ==
    /\ pc = "card"
    /\ idx < Len(cheapest_flights)
    /\ LET flight == cheapest_flights[idx + 1]
           next == IF idx + 1 = Len(cheapest_flights) THEN AfterCards
                   ELSE "card"
       IN  IF CardFieldsRaiseAt(flight) # 0
           THEN /\ pc' = "crashed"
                /\ UNCHANGED <<idx, results_with_booking, booking_options,
                               calls, page>>
           ELSE /\ pc' = next
                /\ idx' = idx + 1
                /\ IF HasToken(flight)
                   THEN /\ \/ /\ booking_options' = Null
                              /\ calls' = Append(calls,
                                                 Call("booking_lookup", idx, TRUE))
                              /\ page' = page \o
                                   <<Warning(idx + 1, "Could not fetch booking link"),
                                     Card(idx + 1, Null)>>
                              /\ UNCHANGED results_with_booking
                           \/ \E results \in SecondaryResults :
                                LET b == BookingLookup(OrEmptyDict(results), idx)
                                    opt == IF b.exc THEN Null ELSE b.val
                                IN  /\ results_with_booking' = OrEmptyDict(results)
                                    /\ calls' = Append(calls,
                                           Call("booking_lookup", idx, FALSE))
                                    /\ booking_options' = opt
                                    /\ page' = page \o
                                         (IF b.exc
                                          THEN <<Warning(idx + 1,
                                                  "Could not fetch booking link")>>
                                          ELSE <<>>) \o <<Card(idx + 1, opt)>>
                   ELSE /\ booking_options' = Null
                        /\ page' = Append(page, Card(idx + 1, Null))
                        /\ UNCHANGED <<results_with_booking, calls>>
    /\ UNCHANGED <<flight_data, cheapest_flights, research_results,
                   hotel_restaurant_results, itinerary>>

\* lines 343-347
HotelsSection ==
    /\ pc = "hotels_section"
    /\ page' = page \o <<Subheader("Hotels & Restaurants"),
                         Text(hotel_restaurant_results.content)>>
    /\ pc' = "itinerary_section"
    /\ UNCHANGED <<flight_data, cheapest_flights, research_results,
                   hotel_restaurant_results, itinerary, idx,
                   results_with_booking, booking_options, calls>>

\* lines 352-356
ItinerarySection ==
    /\ pc = "itinerary_section"
    /\ page' = page \o <<Subheader("Your Personalized Itinerary"),
                         Text(itinerary.content)>>
    /\ pc' = "success"
    /\ UNCHANGED <<flight_data, cheapest_flights, research_results,
                   hotel_restaurant_results, itinerary, idx,
                   results_with_booking, booking_options, calls>>

\* line 358
Success ==
    /\ pc = "success"
    /\ page' = Append(page, Shown("success", 0,
                                  "Travel plan generated successfully!", ""))
    /\ pc' = "done"
    /\ UNCHANGED <<flight_data, cheapest_flights, research_results,
                   hotel_restaurant_results, itinerary, idx,
                   results_with_booking, booking_options, calls>>

Next == \/ FetchFlights
        \/ SelectCheapest
        \/ Research
        \/ HotelsRestaurants
        \/ Plan
        \/ FlightsSection
        \/ FlightCard
        \/ HotelsSection
        \/ ItinerarySection
        \/ Success

Spec == Init /\ [][Next]_vars

\* extract_cheapest_flights alone, on every input of SelectInputs
InitSelect == pc = "select" /\ flight_data \in SelectInputs /\ InitRest

SpecSelect == InitSelect /\ [][SelectCheapest]_vars

\* =============================================================== claims
\* the best_flights list of the search response, when it is one
InputOffers == IF flight_data.t = "dict" /\ flight_data.best.t = "list"
               THEN flight_data.best.l ELSE <<>>

\* extract_cheapest_flights has been called
SelectDone == pc # "fetch" /\ pc # "select"

\* x ranks before y: by price, an offer without a usable price behind every
\* priced one, offers of equal or equally unknown price by input position
Priced(x) == x.price.t = "num"
RanksBefore(x, y) ==
    \/ Priced(x) /\ ~Priced(y)
    \/ Priced(x) /\ Priced(y) /\ x.price.n < y.price.n
    \/ Priced(x) /\ Priced(y) /\ x.price.n = y.price.n /\ x.id < y.id
    \/ ~Priced(x) /\ ~Priced(y) /\ x.id < y.id

\* R is the first min(3, |S|) offers of S in the ranking
IsCheapestThree(R, S) ==
    /\ Len(R) = Min(3, Len(S))
    /\ \A i \in 1..Len(R) : R[i].id \in 1..Len(S) /\ R[i] = S[R[i].id]
    /\ \A i, j \in 1..Len(R) : i < j => RanksBefore(R[i], R[j])
    /\ \A k \in 1..Len(S) :
          (\A i \in 1..Len(R) : R[i].id # k) =>
              \A i \in 1..Len(R) : RanksBefore(R[i], S[k])

AllPricedOrMissing ==
    /\ flight_data.t = "dict" /\ flight_data.best.t = "list"
    /\ \A i \in 1..Len(InputOffers) :
          InputOffers[i].isdict /\ InputOffers[i].price.t \in {"num", "missing"}

\* C1: for every offer list whose prices are numbers or missing, the
\* selector returns min(3, |S|) offers sorted non-decreasingly by price,
\* unpriced offers behind all priced ones, equal prices in input order:
\* the 3 smallest of S in that ordering.
C1_CheapestThreeSorted ==
    (SelectDone /\ AllPricedOrMissing) =>
        pc # "crashed" /\ IsCheapestThree(cheapest_flights, InputOffers)

\* a list of four with an unpriced offer first and two equal prices has
\* been cut to three
C1_Witness ==
    /\ SelectDone /\ AllPricedOrMissing
    /\ Len(InputOffers) = 4 /\ Len(cheapest_flights) = 3
    /\ InputOffers[1].price = Missing
    /\ InputOffers[2].price = Num(500) /\ InputOffers[3].price = Num(500)
    /\ InputOffers[4].price = Num(300)

HasUnparseablePrice ==
    /\ flight_data.t = "dict" /\ flight_data.best.t = "list"
    /\ \A i \in 1..Len(InputOffers) : InputOffers[i].isdict
    /\ \E i \in 1..Len(InputOffers) : InputOffers[i].price.t \in {"null", "str"}

PricesOf(l) == [i \in 1..Len(l) |-> l[i].price]

\* C2: an offer whose price is present but null or non-numeric counts as
\* infinitely expensive and sinks to the end: the result still has length
\* min(3, |S|) and its priced offers are ranked as without it; prices
\* [500, 300, 900, null] give [300, 500, 900].
C2_UnparseablePriceSinks ==
    /\ (SelectDone /\ HasUnparseablePrice) =>
          IsCheapestThree(cheapest_flights, InputOffers)
    /\ (SelectDone /\ PricesOf(InputOffers) = <<Num(500), Num(300), Num(900), Null>>)
          => PricesOf(cheapest_flights) = <<Num(300), Num(500), Num(900)>>

Malformed ==
    \/ flight_data.t # "dict"
    \/ flight_data.best.t \in {"null", "nonlist"}
    \/ \E i \in 1..Len(InputOffers) :
          ~InputOffers[i].isdict \/ InputOffers[i].price.t \in {"missing", "str", "null"}

\* C3: extract_cheapest_flights never raises: whatever the response (no
\* dict, best_flights missing, null or empty, an offer that is no dict or
\* has no price or a non-numeric one), the caller gets a sequence of at
\* most 3 of the offers, the empty one for an empty or missing list.
C3_SelectNeverRaises ==
    /\ pc # "crashed"
    /\ SelectDone =>
          /\ Len(cheapest_flights) <= 3
          /\ \A i \in 1..Len(cheapest_flights) :
                \E k \in 1..Len(InputOffers) : cheapest_flights[i] = InputOffers[k]
          /\ InputOffers = <<>> => cheapest_flights = <<>>

\* the call has returned for a response that is no dict, and for a list
\* holding an entry that is no dict
C3_Witness ==
    /\ SelectDone /\ pc = "research" /\ Malformed
    /\ \/ flight_data = NonDictResult
       \/ Len(InputOffers) = 2 /\ ~InputOffers[2].isdict

\* ------------------------------------------------------ the display loop
\* the offer carries a non-empty continuation token
TokenBearing(x) == x.departure_token.t = "str" /\ x.departure_token.s # ""

\* the booking lookups made for the offer at the 1-based position i, its
\* cards on the page and whether a warning names it
Lookups(i) == {k \in DOMAIN calls :
                 calls[k].op = "booking_lookup" /\ calls[k].arg = i - 1}
Cards(i) == {k \in DOMAIN page : page[k].kind = "card" /\ page[k].pos = i}
Warned(i) == \E k \in DOMAIN page : page[k].kind = "warning" /\ page[k].pos = i
HasLink(i) == \E k \in Cards(i) : page[k].text # "#"

LoopEnded == pc \in {"crashed", "hotels_section", "itinerary_section",
                     "success", "done"}

\* the booking reference the secondary list L holds for the 1-based
\* position i: the token of L[i] if that entry exists, else of the first
\* entry; "" when there is none (no entry, no dict, no or an empty token)
ExpectedReference(L, i) ==
    LET e == IF Len(L) >= i THEN <<L[i]>>
             ELSE IF L # <<>> THEN <<L[1]>> ELSE <<>>
    IN  IF e # <<>> /\ e[1].isdict /\ e[1].booking_token.t = "str"
        THEN e[1].booking_token.s ELSE ""

ExpectedLink(ref) ==
    IF ref # "" THEN "https://www.google.com/travel/flights?tfs=" \o ref ELSE "#"

\* the offer processed last carries a token and its lookup returned
LastLookupReturned ==
    /\ idx >= 1 /\ TokenBearing(cheapest_flights[idx])
    /\ Lookups(idx) # {}
    /\ \A k \in Lookups(idx) : ~calls[k].exc

LastLookupReturnedList ==
    /\ LastLookupReturned
    /\ results_with_booking.t = "dict" /\ results_with_booking.best.t = "list"

\* C4: a booking lookup is issued only for selected offers with a
\* non-empty departure_token; an offer whose token is missing, null or
\* empty gets no lookup, an absent booking reference, the link '#' and the
\* label 'No booking link available'.
C4_LookupOnlyWithToken ==
    /\ \A k \in DOMAIN calls :
          calls[k].op = "booking_lookup" =>
              /\ calls[k].arg + 1 \in 1..Len(cheapest_flights)
              /\ TokenBearing(cheapest_flights[calls[k].arg + 1])
    /\ \A i \in 1..Len(cheapest_flights) :
          ~TokenBearing(cheapest_flights[i]) =>
              /\ Lookups(i) = {}
              /\ idx = i => booking_options = Null
              /\ \A k \in Cards(i) : /\ page[k].text = "#"
                                     /\ page[k].label = "No booking link available"

\* an offer with an empty token has its card, after an offer with a token
\* had its lookup
C4_Witness ==
    \E i, j \in 1..Len(cheapest_flights) :
        /\ cheapest_flights[i].departure_token = Str("")
        /\ Cards(i) # {} /\ idx = i
        /\ Lookups(j) # {}

\* C5: a lookup that raises leaves its offer without a reference and the
\* loop goes on to every remaining selected offer: each offer is processed
\* exactly once, and the outcome of an offer is that of its own lookup,
\* whatever happened to the lookups before it.
C5_FailureNeverBlocks ==
    /\ \A i \in 1..Len(cheapest_flights) :
          (\E k \in Lookups(i) : calls[k].exc) =>
              /\ Cards(i) # {} /\ ~HasLink(i)
              /\ LoopEnded =>
                    \A j \in 1..Len(cheapest_flights) : Cardinality(Cards(j)) = 1
    /\ LastLookupReturnedList =>
          \A k \in Cards(idx) :
              page[k].text =
                 ExpectedLink(ExpectedReference(results_with_booking.best.l, idx))

\* C6: for a token-bearing offer at position idx whose lookup returns the
\* list L, the reference is the booking_token of L[idx] if that entry
\* exists, else of L[0] if L is non-empty, else absent; a reference T
\* renders '...flights?tfs=T', an absent one '#'.
C6_IndexThenFirstEntry ==
    LastLookupReturnedList =>
        LET L == results_with_booking.best.l
            ref == ExpectedReference(L, idx)
        IN  /\ ref # "" => booking_options = Str(ref)
            /\ ref = "" => booking_options \in {Null, Str("")}
            /\ Cards(idx) # {}
            /\ \A k \in Cards(idx) : page[k].text = ExpectedLink(ref)
            /\ (idx = 1 /\ L = <<Entry(Str("T1"))>>) =>
                  \A k \in Cards(idx) :
                      page[k].text = "https://www.google.com/travel/flights?tfs=T1"
            /\ L = <<>> => \A k \in Cards(idx) : page[k].text = "#"

\* the third offer fell back to the only entry of its list
C6_Witness ==
    /\ LastLookupReturnedList /\ idx = 3
    /\ results_with_booking.best.l = <<Entry(Str("T1"))>>
    /\ HasLink(3)

\* C7 as stated: a token-bearing offer ends Resolved (a link) or Failed (a
\* warning naming it): never with no link and no warning.
C7_ResolvedOrWarned ==
    \A i \in 1..Len(cheapest_flights) :
        (TokenBearing(cheapest_flights[i]) /\ Cards(i) # {}) =>
            HasLink(i) \/ Warned(i)

\* the lookup of the offer processed last raised: the request itself, or
\* the reading of a response that is no dict, whose best_flights is null
\* or no list, or whose chosen entry is no dict
LastLookupRaised ==
    \/ \E k \in Lookups(idx) : calls[k].exc
    \/ results_with_booking.t # "dict"
    \/ results_with_booking.best.t \in {"null", "nonlist"}
    \/ LET L == results_with_booking.best.l
       IN  \/ Len(L) >= idx /\ ~L[idx].isdict
           \/ Len(L) < idx /\ L # <<>> /\ ~L[1].isdict

\* C7 amended: a token-bearing offer whose card is shown had one lookup
\* and one card and ended in one of three ways: Resolved (a link, no
\* warning), Failed (no link, a warning naming its 1-based position),
\* exactly when the lookup raised, or Unresolved (no link, no warning),
\* when the lookup returned without a usable booking_token.
C7_ThreeOutcomes ==
    /\ \A i \in 1..Len(cheapest_flights) :
          (TokenBearing(cheapest_flights[i]) /\ Cards(i) # {}) =>
              /\ Cardinality(Cards(i)) = 1 /\ Cardinality(Lookups(i)) = 1
              /\ Warned(i) => ~HasLink(i)
              /\ i = idx =>
                    /\ Warned(i) <=> LastLookupRaised
                    /\ ~LastLookupRaised =>
                          (HasLink(i) <=>
                             ExpectedReference(results_with_booking.best.l, i) # "")
    /\ \A k \in DOMAIN page :
          (page[k].kind = "warning" /\ page[k].pos # 0) =>
              /\ page[k].pos \in 1..idx
              /\ TokenBearing(cheapest_flights[page[k].pos])

\* a lookup that returned an empty list left its offer with no link and
\* no warning
C7_Witness ==
    /\ LastLookupReturnedList /\ results_with_booking.best.l = <<>>
    /\ Cards(idx) # {} /\ ~HasLink(idx) /\ ~Warned(idx)

\* C8: no exception of a single offer or agent call reaches the top
\* level: the render always goes on to the hotels section, the itinerary
\* section and the completion message.
C8_NothingEscapes == pc # "crashed"

\* C9: each token-bearing selected offer causes exactly one lookup, so a
\* render issues as many lookups as it has token-bearing selected offers,
\* and at most 3.
C9_OneLookupPerToken ==
    /\ \A i \in 1..Len(cheapest_flights) : Cardinality(Lookups(i)) <= 1
    /\ Cardinality({k \in DOMAIN calls : calls[k].op = "booking_lookup"}) <= 3
    /\ LoopEnded =>
          \A i \in 1..Len(cheapest_flights) :
              Cardinality(Lookups(i)) =
                 IF TokenBearing(cheapest_flights[i]) THEN 1 ELSE 0

IsAgent(c) == c.op \in {"researcher", "hotel_restaurant_finder", "planner"}
AgentsDone == \A a \in {"researcher", "hotel_restaurant_finder", "planner"} :
                 \E k \in DOMAIN calls : calls[k].op = a
SectionShown == \E k \in DOMAIN page :
                   page[k].kind \in {"subheader", "card", "text", "success"}

\* C10 as stated: every booking lookup precedes the first agent call, and
\* no section is shown before all lookups and agent calls are done.
C10_LookupsBeforeAgents ==
    /\ \A j, k \in DOMAIN calls :
          (IsAgent(calls[j]) /\ calls[k].op = "booking_lookup") => k < j
    /\ SectionShown =>
          /\ AgentsDone
          /\ \A i \in 1..Len(cheapest_flights) :
                TokenBearing(cheapest_flights[i]) => Lookups(i) # {}

StageOp(k) == IF k = 1 THEN "flight_search"
              ELSE IF k = 2 THEN "researcher"
              ELSE IF k = 3 THEN "hotel_restaurant_finder"
              ELSE IF k = 4 THEN "planner"
              ELSE "booking_lookup"

\* C10 amended: the stages of a render are, in this order, the flight
\* search, the selection, the researcher, the hotel finder, the planner,
\* and then the display with the booking lookups inside it: the lookup of
\* an offer comes after the flights header and the cards of the offers
\* before it, and no section is shown before the three agent calls are
\* done.
C10_StageOrder ==
    /\ \A k \in DOMAIN calls : calls[k].op = StageOp(k)
    /\ SelectDone => Len(calls) >= 1
    /\ Len(calls) >= 2 => SelectDone
    /\ SectionShown => Len(calls) >= 4
    /\ \A k \in DOMAIN calls :
          calls[k].op = "booking_lookup" =>
              /\ \E h \in DOMAIN page : page[h] = Subheader("Cheapest Flight Options")
              /\ \A j \in 1..calls[k].arg : Cards(j) # {}

\* a render with three lookups has shown its completion message
C10_Witness == pc = "done" /\ Len(calls) = 7

====
